---------------------------- MODULE Spec2Model ----------------------------
(***************************************************************************)
(* A model of the orchestration layer of oute-tts-rs:                      *)
(*   - GGUFModel::generate_stream (src/src/model.rs), the autoregressive   *)
(*     loop run by concurrent callers against one model instance;          *)
(*   - GGUFModel::new (src/src/model.rs), the guarded backend start-up;    *)
(*   - PromptProcessor::get_audio_token_map and extract_audio_from_tokens  *)
(*     (src/src/prompt_processor.rs), the vocabulary map and the filter.   *)
(* The inference engine, the tokenizer and the sampler are external: what  *)
(* they return is a nondeterministic choice over small sets.               *)
(***************************************************************************)
EXTENDS Integers, Sequences, FiniteSets, TLC

(***************************************************************************)
(* Bounds of the model.                                                    *)
(***************************************************************************)
\* Longest prompt body (the tokens after the BOS token str_to_token adds).
MaxPromptBody == 1
\* Largest config.max_length a caller passes.
MaxLength == 2
\* Number of audio codes the vocabulary map is built for (N of the code range;
\* the loop of get_audio_token_map runs over 0..N-1).
NumCodes == 3
\* Longest id sequence handed to extract_audio_from_tokens.
MaxTokens == 3
\* Highest max_seq_length a creator passes to GGUFModel::new.
MaxSeqLength == 2

(***************************************************************************)
(* Program constants.                                                      *)
(***************************************************************************)
\* LlamaBatch::new(1024, 1): the capacity of the batch.
BatchCapacity == 1024
\* n_cur % 1024 == 0: the interval of clear_kv_cache.
KvClearInterval == 1024
\* ModelOutput::new(samples, 16000)
OutputSampleRate == 16000
\* add_mirostat_v2(42, 5.0, 0.1): seed, and tau and eta in tenths
MirostatSeed == 42
MirostatTau == 50
MirostatEta == 1
\* chunks(4): bytes per f32 sample
SampleBytes == 4

(***************************************************************************)
(* Threads and tokens.                                                     *)
(***************************************************************************)
\* The threads that call generate on the one model instance.
Callers == {1, 2}
\* No thread.
Nobody == 0

\* Token ids of the language model's vocabulary that occur in the model.
Bos == 1
Eog == 2
TokA == 3
TokB == 4

\* The ids the sampler can return.
SampleTokens == {Eog, TokA, TokB}
\* The ids a prompt body is made of.
PromptTokens == {TokA}

\* GenerationConfig.temperature and .repetition_penalty, in tenths.
Temperatures == {1, 8}
RepetitionPenalties == {11}

RECURSIVE SeqsUpTo(_, _)
\* All sequences over S of length at most n.
SeqsUpTo(S, n) ==
    IF n = 0 THEN {<<>>}
    ELSE LET shorter == SeqsUpTo(S, n - 1)
         IN  shorter \cup {Append(s, x) : s \in {t \in shorter : Len(t) = n - 1}, x \in S}

\* What str_to_token(prompt, AddBos::Always) can return: BOS, then the body.
TokenLists == {<<Bos>> \o body : body \in SeqsUpTo(PromptTokens, MaxPromptBody)}

\* The prompts a caller can pass. A prompt is named by what the model's
\* tokenizer makes of it: an error, or a token list.
Prompts ==
    {[ok |-> FALSE, toks |-> <<>>]} \cup {[ok |-> TRUE, toks |-> t] : t \in TokenLists}
NoPrompt == [ok |-> FALSE, toks |-> <<>>]

\* The configs a caller can pass.
Configs ==
    [max_length : 0..MaxLength, temperature : Temperatures,
     repetition_penalty : RepetitionPenalties]

\* The n_ctx the shared context was created with: max_seq_length. The CLI
\* passes its max_length for max_seq_length too, so the context is as
\* large as the largest max_length a caller asks for.
ContextSize == MaxLength

VARIABLES
    \* --- GGUFModel: the shared inference context ---
    ctxLock,        \* holder of the Mutex around the LlamaContext, or Nobody
    kvCache,        \* the context's attention cache: the positions it holds
    ctxUser,        \* the caller of the most recent engine call on the context
    \* --- one generate_stream call per caller ---
    pc,             \* position of each caller in generate_stream
    prompt,         \* the caller's prompt
    config,         \* the caller's GenerationConfig
    tokens_list,    \* the prompt's token ids
    batch,          \* the LlamaBatch: a sequence of <<token, position>>
    n_cur,          \* the position cursor (i32)
    generated_text, \* the bytes of the String built from the sampled tokens
    sampler,        \* the sampler chain: a sequence of stages
    accepted,       \* the ids registered with the sampler by accept
    token,          \* the id sampled in this iteration
    stop,           \* how the loop was left: "none", "EOG" or "MaxLength"
    result,         \* the ModelOutput returned
    err,            \* the error returned
    engineCalls,    \* engine calls made by the call so far
    \* --- GGUFModel::new ---
    backendLock,    \* holder of the BACKEND mutex, or Nobody
    backendSlot,    \* BACKEND's Option<Arc<LlamaBackend>>: 0 is None
    initCount,      \* successful LlamaBackend::init calls of the process
    npc,            \* position of each creator in GGUFModel::new
    newBackend,     \* the backend each creator holds
    instance,       \* the GGUFModel each creator built: its backend and n_ctx
    \* --- PromptProcessor ---
    vpc,            \* position in PromptProcessor::new / extract
    encoding,       \* what the tokenizer returned for each code so far
    code_i,         \* loop index of get_audio_token_map
    map_audio_tokens, \* the vocabulary map: token id -> code id
    ex_tokens,      \* the argument of extract_audio_from_tokens
    ex_idx,         \* number of tokens the extract loop has consumed
    ex_result,      \* the Vec the extract loop builds
    \* --- InterfaceGGUF::generate, from get_audio on ---
    spc,            \* position in get_audio / the tail of generate
    audio,          \* the Array<f32, IxDyn> get_audio returned
    decoderCalls,   \* runs of the codec's ONNX session
    output,         \* the ModelOutput generate returned
    gerr,           \* the error generate returned
    \* --- PromptProcessor::get_completion_prompt / process_text ---
    ppc,            \* position in get_completion_prompt / process_text
    p_text,         \* the text argument
    p_language,     \* the language argument
    p_speaker,      \* the speaker argument
    words,          \* the Vec<String> of words built so far
    completion,     \* the prompt returned
    warned,         \* the language-mismatch warning was printed
    panicMsg,       \* the message of the panic that ended the process
    \* --- InterfaceGGUF::validate_speaker ---
    registry,       \* DEFAULT_SPEAKERS
    vs_language,    \* the language argument
    vs_speaker,     \* the speaker argument
    vs_result       \* the Result<bool> returned

genVars ==
    <<ctxLock, kvCache, ctxUser, pc, prompt, config, tokens_list, batch, n_cur,
      generated_text, sampler, accepted, token, stop, result, err,
      engineCalls>>
backendVars == <<backendLock, backendSlot, initCount, npc, newBackend, instance>>
vocabVars ==
    <<vpc, encoding, code_i, map_audio_tokens, ex_tokens, ex_idx, ex_result>>
synthVars == <<spc, audio, decoderCalls, output, gerr>>
textVars == <<ppc, p_text, p_language, p_speaker, words, completion, warned, panicMsg>>
speakerVars == <<registry, vs_language, vs_speaker, vs_result>>
ifaceVars == <<synthVars, textVars, speakerVars>>
vars == <<genVars, backendVars, vocabVars, ifaceVars>>

(***************************************************************************)
(* Pure helpers of generate_stream.                                        *)
(***************************************************************************)
\* `x as i32` for a usize x: the value itself up to i32::MAX, which every
\* length of the model is far below (the cast wraps only from 2^31 on).
AsI32(x) == IF x <= 2147483647 THEN x ELSE -1

\* A check that also takes TokA for the end of generation.
IsEogTokenOrTokA(t) == t \in {Eog, TokA}

\* model.is_eog_token(token)
IsEogToken(t) == t = Eog

\* model.token_to_bytes(token, Special::Tokenize): the bytes of each piece.
\* TokA is "ab"; TokB is the single byte 0xFF, which is not valid UTF-8.
TokenToBytes(t) ==
    CASE t = TokA -> <<97, 98>>
      [] t = TokB -> <<255>>
      [] t = Bos  -> <<60>>
      [] OTHER    -> <<>>

RECURSIVE FromUtf8Lossy(_)
\* String::from_utf8_lossy(bytes).to_string(), as bytes: an ASCII byte is
\* kept, a byte that starts no valid sequence becomes U+FFFD (EF BF BD).
\* (The pieces of TokenToBytes hold no valid multi-byte sequence.)
FromUtf8Lossy(bytes) ==
    IF bytes = <<>> THEN <<>>
    ELSE (IF Head(bytes) < 128 THEN <<Head(bytes)>> ELSE <<239, 191, 189>>)
         \o FromUtf8Lossy(Tail(bytes))

\* f32::from_le_bytes(b): the sample, written as its 32 bits read as a
\* signed integer (a one-to-one naming of the f32 values).
F32FromLeBytes(b) ==
    b[1] + 256 * b[2] + 65536 * b[3]
    + 16777216 * (IF b[4] >= 128 THEN b[4] - 256 ELSE b[4])

\* bytes.chunks(4).map(|c| f32::from_le_bytes(c.try_into().unwrap_or([0; 4]))):
\* chunk k is bytes 4k-3 .. 4k, and a last chunk of fewer than four bytes
\* is read as [0; 4].
ChunksToSamples(bytes) ==
    [k \in 1..((Len(bytes) + SampleBytes - 1) \div SampleBytes) |->
        IF k * SampleBytes <= Len(bytes)
        THEN F32FromLeBytes(SubSeq(bytes, (k - 1) * SampleBytes + 1, k * SampleBytes))
        ELSE F32FromLeBytes(<<0, 0, 0, 0>>)]

\* The chain generate_stream builds: mirostat v2, then temperature.
SamplerChain(cfg) ==
    << [kind |-> "mirostat_v2", args |-> <<MirostatSeed, MirostatTau, MirostatEta>>],
       [kind |-> "temp", args |-> <<cfg.temperature>>] >>

\* A length check that lets a prompt of exactly max_length tokens through.
PromptLongerThanMax(toks, cfg) == Len(toks) > cfg.max_length

\* tokens_list.len() >= config.max_length
PromptTooLong(toks, cfg) == Len(toks) >= cfg.max_length

\* while n_cur <= config.max_length as i32
LoopCondition(n, cfg) == n <= AsI32(cfg.max_length)

\* A lock that never blocks.
CanLockAlways(p) == TRUE

\* context.lock(): the mutex is free.
CanLock(p) == ctxLock = Nobody

NoResult == [audio |-> <<>>, sr |-> 0]
NoConfig == [max_length |-> 0, temperature |-> 0, repetition_penalty |-> 0]

(***************************************************************************)
(* generate_stream, step by step.                                          *)
(***************************************************************************)
\* Leaving generate_stream: its locals are dropped, and with them the
\* MutexGuard, which frees the context.
DropLocals(p) ==
    /\ ctxLock' = Nobody
    /\ tokens_list' = [tokens_list EXCEPT ![p] = <<>>]
    /\ batch' = [batch EXCEPT ![p] = <<>>]
    /\ n_cur' = [n_cur EXCEPT ![p] = 0]
    /\ generated_text' = [generated_text EXCEPT ![p] = <<>>]
    /\ sampler' = [sampler EXCEPT ![p] = <<>>]
    /\ accepted' = [accepted EXCEPT ![p] = <<>>]
    /\ token' = [token EXCEPT ![p] = 0]
    /\ stop' = [stop EXCEPT ![p] = "none"]

\* Returning Err(e), by bail! or by the ? operator.
Fail(p, e) ==
    /\ pc' = [pc EXCEPT ![p] = "failed"]
    /\ err' = [err EXCEPT ![p] = e]
    /\ DropLocals(p)
    /\ UNCHANGED result

\* Lines 162-167: lock the context, tokenize, check the length, for a
\* prompt and a config out of the given sets.
BeginWith(p, prompts, configs) ==
    /\ pc[p] = "idle"
    /\ CanLock(p)
    /\ \E pr \in prompts, cfg \in configs :
         /\ prompt' = [prompt EXCEPT ![p] = pr]
         /\ config' = [config EXCEPT ![p] = cfg]
         /\ IF ~pr.ok
            THEN \* str_to_token(prompt, AddBos::Always)? fails
                 /\ Fail(p, "Tokenize")
                 /\ UNCHANGED engineCalls
            ELSE IF PromptTooLong(pr.toks, cfg)
            THEN /\ Fail(p, "PromptTooLong")
                 /\ UNCHANGED engineCalls
            ELSE /\ ctxLock' = p
                 /\ tokens_list' = [tokens_list EXCEPT ![p] = pr.toks]
                 /\ pc' = [pc EXCEPT ![p] = "prefill"]
                 /\ UNCHANGED <<batch, n_cur, generated_text, sampler, accepted,
                                token, stop, result, err, engineCalls>>
    /\ UNCHANGED <<kvCache, ctxUser>>
    /\ UNCHANGED <<backendVars, vocabVars, ifaceVars>>

\* Lines 157-167 for the short prompts and small configs.
Begin(p) == BeginWith(p, Prompts, Configs)

\* The batch the for loop of lines 172-175 builds: token i at position i.
PrefillBatch(toks) == [i \in 1..Len(toks) |-> <<toks[i], i - 1>>]

\* The positions a batch writes to the attention cache.
BatchPositions(b) == {b[i][2] : i \in 1..Len(b)}

\* Lines 169-179: fill the batch, decode it, set the cursor.
Prefill(p) ==
    /\ pc[p] = "prefill"
    /\ IF Len(tokens_list[p]) > BatchCapacity
       THEN \* batch.add fails with InsufficientSpace
            /\ Fail(p, "BatchAdd")
            /\ UNCHANGED <<kvCache, ctxUser, prompt, config, engineCalls>>
       ELSE /\ ctxUser' = p
            /\ \E decoded \in BOOLEAN :
                 IF decoded
                 THEN /\ batch' = [batch EXCEPT ![p] = PrefillBatch(tokens_list[p])]
                      /\ kvCache' = kvCache \cup BatchPositions(batch'[p])
                      /\ n_cur' = [n_cur EXCEPT ![p] = Len(batch'[p])]
                      /\ engineCalls' = [engineCalls EXCEPT ![p] = @ + 1]
                      /\ pc' = [pc EXCEPT ![p] = "sampler"]
                      /\ UNCHANGED <<ctxLock, prompt, config, tokens_list, generated_text,
                                     sampler, accepted, token, stop, result, err>>
                 ELSE /\ Fail(p, "Decode")
                      /\ engineCalls' = [engineCalls EXCEPT ![p] = @ + 1]
                      /\ UNCHANGED <<kvCache, prompt, config>>
    /\ UNCHANGED <<backendVars, vocabVars, ifaceVars>>

\* Lines 180-184: the empty text and the sampler chain.
BuildSampler(p) ==
    /\ pc[p] = "sampler"
    /\ \E built \in BOOLEAN :
         IF built
         THEN /\ generated_text' = [generated_text EXCEPT ![p] = <<>>]
              /\ sampler' = [sampler EXCEPT ![p] = SamplerChain(config[p])]
              /\ pc' = [pc EXCEPT ![p] = "loop"]
              /\ UNCHANGED <<ctxLock, prompt, config, tokens_list, batch, n_cur, accepted,
                             token, stop, result, err, engineCalls>>
         ELSE /\ Fail(p, "Sampler")
              /\ UNCHANGED <<prompt, config, engineCalls>>
    /\ UNCHANGED <<kvCache, ctxUser>>
    /\ UNCHANGED <<backendVars, vocabVars, ifaceVars>>

\* Line 186: the loop test.
LoopTest(p) ==
    /\ pc[p] = "loop"
    /\ IF LoopCondition(n_cur[p], config[p])
       THEN /\ pc' = [pc EXCEPT ![p] = "sample"]
            /\ UNCHANGED stop
       ELSE /\ pc' = [pc EXCEPT ![p] = "convert"]
            /\ stop' = [stop EXCEPT ![p] = "MaxLength"]
    /\ UNCHANGED <<ctxLock, kvCache, ctxUser, prompt, config, tokens_list, batch, n_cur,
                   generated_text, sampler, accepted, token, result, err,
                   engineCalls>>
    /\ UNCHANGED <<backendVars, vocabVars, ifaceVars>>

\* Line 187: sampler.sample(&context, batch.n_tokens() - 1), the engine
\* picking one of the given ids.
SampleFrom(p, ids) ==
    /\ pc[p] = "sample"
    /\ \E t \in ids : token' = [token EXCEPT ![p] = t]
    /\ ctxUser' = p
    /\ engineCalls' = [engineCalls EXCEPT ![p] = @ + 1]
    /\ pc' = [pc EXCEPT ![p] = "accept"]
    /\ UNCHANGED <<ctxLock, kvCache, prompt, config, tokens_list, batch, n_cur,
                   generated_text, sampler, accepted, stop, result, err>>
    /\ UNCHANGED <<backendVars, vocabVars, ifaceVars>>

\* Line 187 with every id the engine can pick.
Sample(p) == SampleFrom(p, SampleTokens)

\* Line 188: sampler.accept(token)
Accept(p) ==
    /\ pc[p] = "accept"
    /\ accepted' = [accepted EXCEPT ![p] = Append(@, token[p])]
    /\ pc' = [pc EXCEPT ![p] = "eog"]
    /\ UNCHANGED <<ctxLock, kvCache, ctxUser, prompt, config, tokens_list, batch, n_cur,
                   generated_text, sampler, token, stop, result, err,
                   engineCalls>>
    /\ UNCHANGED <<backendVars, vocabVars, ifaceVars>>

\* Lines 190-196: the end-of-generation check, then the token's text.
EogCheck(p) ==
    /\ pc[p] = "eog"
    /\ IF IsEogToken(token[p])
       THEN /\ pc' = [pc EXCEPT ![p] = "convert"]
            /\ stop' = [stop EXCEPT ![p] = "EOG"]
            /\ UNCHANGED <<ctxLock, prompt, config, tokens_list, batch, n_cur,
                           generated_text, sampler, accepted, token, result, err,
                           engineCalls>>
       ELSE \E converted \in BOOLEAN :
              IF converted
              THEN /\ generated_text' =
                        [generated_text EXCEPT
                           ![p] = @ \o FromUtf8Lossy(TokenToBytes(token[p]))]
                   /\ pc' = [pc EXCEPT ![p] = "decode"]
                   /\ UNCHANGED <<ctxLock, prompt, config, tokens_list, batch, n_cur,
                                  sampler, accepted, token, stop, result, err,
                                  engineCalls>>
              ELSE /\ Fail(p, "TokenToBytes")
                   /\ UNCHANGED <<prompt, config, engineCalls>>
    /\ UNCHANGED <<kvCache, ctxUser>>
    /\ UNCHANGED <<backendVars, vocabVars, ifaceVars>>

\* A test that looks at the cursor as it was before the increment.
ClearsKvCacheBeforeIncrement(n) == (n - 1) % KvClearInterval = 0

\* Line 203: if n_cur % 1024 == 0, on the cursor just incremented.
ClearsKvCache(n) == n % KvClearInterval = 0

\* Lines 198-205: the single-token decode step and the periodic cache clear.
DecodeStep(p) ==
    /\ pc[p] = "decode"
    /\ ctxUser' = p
    /\ \E decoded \in BOOLEAN :
         IF decoded
         THEN /\ batch' = [batch EXCEPT ![p] = <<<<token[p], n_cur[p]>>>>]
              /\ n_cur' = [n_cur EXCEPT ![p] = @ + 1]
              /\ IF ClearsKvCache(n_cur'[p])
                 THEN /\ kvCache' = {}
                      /\ engineCalls' = [engineCalls EXCEPT ![p] = @ + 2]
                 ELSE /\ kvCache' = kvCache \cup BatchPositions(batch'[p])
                      /\ engineCalls' = [engineCalls EXCEPT ![p] = @ + 1]
              /\ pc' = [pc EXCEPT ![p] = "loop"]
              /\ UNCHANGED <<ctxLock, prompt, config, tokens_list, generated_text, sampler,
                             accepted, token, stop, result, err>>
         ELSE /\ Fail(p, "Decode")
              /\ engineCalls' = [engineCalls EXCEPT ![p] = @ + 1]
              /\ UNCHANGED <<kvCache, prompt, config>>
    /\ UNCHANGED <<backendVars, vocabVars, ifaceVars>>

\* Lines 208-215: the text's bytes become f32 samples.
Convert(p) ==
    /\ pc[p] = "convert"
    /\ result' = [result EXCEPT
                    ![p] = [audio |-> ChunksToSamples(generated_text[p]),
                            sr |-> OutputSampleRate]]
    /\ pc' = [pc EXCEPT ![p] = "return"]
    /\ UNCHANGED <<ctxLock, kvCache, ctxUser, prompt, config, tokens_list, batch, n_cur,
                   generated_text, sampler, accepted, token, stop, err,
                   engineCalls>>
    /\ UNCHANGED <<backendVars, vocabVars, ifaceVars>>

\* Line 217: Ok(ModelOutput) goes to the caller.
ReturnOk(p) ==
    /\ pc[p] = "return"
    /\ pc' = [pc EXCEPT ![p] = "done"]
    /\ DropLocals(p)
    /\ UNCHANGED <<kvCache, ctxUser, prompt, config, result, err, engineCalls>>
    /\ UNCHANGED <<backendVars, vocabVars, ifaceVars>>

\* The caller is through with the Result and may call again.
Release(p) ==
    /\ pc[p] \in {"done", "failed"}
    /\ pc' = [pc EXCEPT ![p] = "idle"]
    /\ prompt' = [prompt EXCEPT ![p] = NoPrompt]
    /\ config' = [config EXCEPT ![p] = NoConfig]
    /\ result' = [result EXCEPT ![p] = NoResult]
    /\ err' = [err EXCEPT ![p] = "none"]
    /\ engineCalls' = [engineCalls EXCEPT ![p] = 0]
    /\ UNCHANGED <<ctxLock, kvCache, ctxUser, tokens_list, batch, n_cur,
                   generated_text, sampler, accepted, token, stop>>
    /\ UNCHANGED <<backendVars, vocabVars, ifaceVars>>

\* A step of the call p is in.
CallStep(p) ==
    \/ Prefill(p)
    \/ BuildSampler(p)
    \/ LoopTest(p)
    \/ Sample(p)
    \/ Accept(p)
    \/ EogCheck(p)
    \/ DecodeStep(p)
    \/ Convert(p)
    \/ ReturnOk(p)

GenInit ==
    /\ ctxLock = Nobody
    /\ kvCache = {}
    /\ ctxUser = Nobody
    /\ pc = [p \in Callers |-> "idle"]
    /\ prompt = [p \in Callers |-> NoPrompt]
    /\ config = [p \in Callers |-> NoConfig]
    /\ tokens_list = [p \in Callers |-> <<>>]
    /\ batch = [p \in Callers |-> <<>>]
    /\ n_cur = [p \in Callers |-> 0]
    /\ generated_text = [p \in Callers |-> <<>>]
    /\ sampler = [p \in Callers |-> <<>>]
    /\ accepted = [p \in Callers |-> <<>>]
    /\ token = [p \in Callers |-> 0]
    /\ stop = [p \in Callers |-> "none"]
    /\ result = [p \in Callers |-> NoResult]
    /\ err = [p \in Callers |-> "none"]
    /\ engineCalls = [p \in Callers |-> 0]

GenNext == \E p \in Callers : Begin(p) \/ CallStep(p) \/ Release(p)

(***************************************************************************)
(* One generate_stream call on a long prompt or with a long generation:    *)
(* the same steps, on prompts around the batch's capacity and with a       *)
(* max_length beyond it. The prompt's body is a run of one id and the      *)
(* engine picks among two, so that a thousand steps stay one path.         *)
(***************************************************************************)
\* How far max_length lies beyond the batch's capacity.
LongExtra == 3

\* The caller of the long call.
LongCaller == 1

\* A token list of n ids: BOS, then TokA.
LongTokenList(n) == [i \in 1..n |-> IF i = 1 THEN Bos ELSE TokA]

\* The prompts of the long call: the shortest one, and the ones around the
\* capacity of the batch.
LongPrompts ==
    {[ok |-> TRUE, toks |-> LongTokenList(n)] :
        n \in {1, BatchCapacity - 1, BatchCapacity, BatchCapacity + 1}}

LongConfigs ==
    {[max_length |-> BatchCapacity + LongExtra, temperature |-> 8,
      repetition_penalty |-> 11]}

\* The ids the engine picks in the long call.
LongSampleTokens == {Eog, TokA}

LongNext ==
    \/ BeginWith(LongCaller, LongPrompts, LongConfigs)
    \/ Prefill(LongCaller)
    \/ BuildSampler(LongCaller)
    \/ LoopTest(LongCaller)
    \/ SampleFrom(LongCaller, LongSampleTokens)
    \/ Accept(LongCaller)
    \/ EogCheck(LongCaller)
    \/ DecodeStep(LongCaller)
    \/ Convert(LongCaller)
    \/ ReturnOk(LongCaller)

(***************************************************************************)
(* GGUFModel::new: the process-wide backend behind the BACKEND mutex.      *)
(***************************************************************************)
\* The threads that build a GGUFModel.
Creators == {1, 2, 3}

NoInstance == [backend |-> 0, n_ctx |-> 0]

\* A backend lock that never blocks.
CanLockBackendAlways(q) == TRUE

\* BACKEND.lock(): the mutex is free.
CanLockBackend(q) == backendLock = Nobody

\* Line 104: let mut backend_guard = BACKEND.lock().unwrap();
NewLock(q) ==
    /\ npc[q] = "idle"
    /\ CanLockBackend(q)
    /\ backendLock' = q
    /\ npc' = [npc EXCEPT ![q] = "check"]
    /\ UNCHANGED <<backendSlot, initCount, newBackend, instance>>
    /\ UNCHANGED <<genVars, vocabVars, ifaceVars>>

\* Lines 105-107: an initialized backend is cloned, and the guard dropped.
NewCheck(q) ==
    /\ npc[q] = "check"
    /\ IF backendSlot # 0
       THEN /\ newBackend' = [newBackend EXCEPT ![q] = backendSlot]
            /\ backendLock' = Nobody
            /\ npc' = [npc EXCEPT ![q] = "load"]
       ELSE /\ npc' = [npc EXCEPT ![q] = "init"]
            /\ UNCHANGED <<newBackend, backendLock>>
    /\ UNCHANGED <<backendSlot, initCount, instance>>
    /\ UNCHANGED <<genVars, vocabVars, ifaceVars>>

\* Line 108: Arc::new(LlamaBackend::init()?). A backend that starts is
\* named by the count of the starts so far; a failed start returns the
\* error and drops the guard.
NewInit(q) ==
    /\ npc[q] = "init"
    /\ \E started \in BOOLEAN :
         IF started
         THEN /\ initCount' = initCount + 1
              /\ newBackend' = [newBackend EXCEPT ![q] = initCount']
              /\ npc' = [npc EXCEPT ![q] = "store"]
              /\ UNCHANGED backendLock
         ELSE /\ npc' = [npc EXCEPT ![q] = "failed"]
              /\ backendLock' = Nobody
              /\ UNCHANGED <<initCount, newBackend>>
    /\ UNCHANGED <<backendSlot, instance>>
    /\ UNCHANGED <<genVars, vocabVars, ifaceVars>>

\* Lines 109-112: the new backend is stored, and the guard dropped.
NewStore(q) ==
    /\ npc[q] = "store"
    /\ backendSlot' = newBackend[q]
    /\ backendLock' = Nobody
    /\ npc' = [npc EXCEPT ![q] = "load"]
    /\ UNCHANGED <<initCount, newBackend, instance>>
    /\ UNCHANGED <<genVars, vocabVars, ifaceVars>>

\* Lines 115-141: load the model, create the context of max_seq_length
\* positions (zero is refused), build the GGUFModel.
NewLoad(q) ==
    /\ npc[q] = "load"
    /\ \E max_seq_length \in 0..MaxSeqLength, loaded \in BOOLEAN :
         IF loaded /\ max_seq_length # 0
         THEN /\ instance' = [instance EXCEPT
                                ![q] = [backend |-> newBackend[q],
                                        n_ctx |-> max_seq_length]]
              /\ npc' = [npc EXCEPT ![q] = "ready"]
              /\ UNCHANGED newBackend
         ELSE /\ npc' = [npc EXCEPT ![q] = "failed"]
              /\ newBackend' = [newBackend EXCEPT ![q] = 0]
              /\ UNCHANGED instance
    /\ UNCHANGED <<backendLock, backendSlot, initCount>>
    /\ UNCHANGED <<genVars, vocabVars, ifaceVars>>

BackendInit ==
    /\ backendLock = Nobody
    /\ backendSlot = 0
    /\ initCount = 0
    /\ npc = [q \in Creators |-> "idle"]
    /\ newBackend = [q \in Creators |-> 0]
    /\ instance = [q \in Creators |-> NoInstance]

BackendNext ==
    \E q \in Creators :
        NewLock(q) \/ NewCheck(q) \/ NewInit(q) \/ NewStore(q) \/ NewLoad(q)

(***************************************************************************)
(* PromptProcessor: the vocabulary map and the extraction of audio codes.  *)
(***************************************************************************)
\* Token ids of the tokenizer's vocabulary that occur in the model.
VocabIds == {10, 11, 12}
\* The ids a generated sequence is made of: those, and a text token.
ExtractIds == VocabIds \cup {13}

\* What tokenizer.encode can answer for one audio-code string: an error, or
\* an Encoding of no id, of one id, or of several.
Encodings ==
    {[ok |-> FALSE, ids |-> <<>>]}
    \cup {[ok |-> TRUE, ids |-> s] : s \in {<<>>, <<10>>, <<11>>, <<12>>, <<10, 11>>}}

\* special_tokens["audio_code"].replace("{}", &i.to_string())
AudioCodeString(i) == <<"<|", i, "|>">>

\* map.insert(token, i): a HashMap insert, which replaces the value of a
\* key the map already holds.
MapInsert(map, k, v) == [x \in DOMAIN map \cup {k} |-> IF x = k THEN v ELSE map[x]]

EmptyMap == [x \in {} |-> 0]

\* Lines 19-37: the processor and its special tokens.
ProcessorNew ==
    /\ vpc = "new"
    /\ vpc' = "building"
    /\ code_i' = 0
    /\ map_audio_tokens' = EmptyMap
    /\ UNCHANGED <<encoding, ex_tokens, ex_idx, ex_result>>
    /\ UNCHANGED <<genVars, backendVars, ifaceVars>>

\* Lines 45-51: one iteration of the loop of get_audio_token_map. unwrap()
\* panics on an encode error, and get_ids()[0] on an empty Encoding.
MapStep ==
    /\ vpc = "building"
    /\ code_i < NumCodes
    /\ \E e \in Encodings :
         /\ encoding' = [encoding EXCEPT ![AudioCodeString(code_i)[2]] = e]
         /\ IF ~e.ok \/ e.ids = <<>>
            THEN /\ vpc' = "panicked"
                 /\ UNCHANGED <<code_i, map_audio_tokens>>
            ELSE /\ map_audio_tokens' = MapInsert(map_audio_tokens, e.ids[1], code_i)
                 /\ code_i' = code_i + 1
                 /\ UNCHANGED vpc
    /\ UNCHANGED <<ex_tokens, ex_idx, ex_result>>
    /\ UNCHANGED <<genVars, backendVars, ifaceVars>>

\* Lines 52 and 39-40: the map is returned and stored in the processor.
MapDone ==
    /\ vpc = "building"
    /\ code_i = NumCodes
    /\ vpc' = "built"
    /\ UNCHANGED <<encoding, code_i, map_audio_tokens, ex_tokens, ex_idx, ex_result>>
    /\ UNCHANGED <<genVars, backendVars, ifaceVars>>

\* Line 128: extract_audio_from_tokens is called with an id sequence.
ExtractBegin ==
    /\ vpc = "built"
    /\ \E toks \in SeqsUpTo(ExtractIds, MaxTokens) : ex_tokens' = toks
    /\ ex_idx' = 0
    /\ ex_result' = <<>>
    /\ vpc' = "extracting"
    /\ UNCHANGED <<encoding, code_i, map_audio_tokens>>
    /\ UNCHANGED <<genVars, backendVars, ifaceVars>>

\* An extraction that keeps only the first occurrence of a code.
ExtractOneDedup(res, map, tok) ==
    IF tok \in DOMAIN map /\ \A k \in 1..Len(res) : res[k] # map[tok]
    THEN Append(res, map[tok])
    ELSE res

\* Lines 130-132: if let Some(&x) = map.get(token) { result.push(x) }
ExtractOne(res, map, tok) ==
    IF tok \in DOMAIN map THEN Append(res, map[tok]) ELSE res

\* Lines 129-133: one iteration of the loop over the tokens.
ExtractStep ==
    /\ vpc = "extracting"
    /\ ex_idx < Len(ex_tokens)
    /\ ex_result' = ExtractOne(ex_result, map_audio_tokens, ex_tokens[ex_idx + 1])
    /\ ex_idx' = ex_idx + 1
    /\ UNCHANGED <<vpc, encoding, code_i, map_audio_tokens, ex_tokens>>
    /\ UNCHANGED <<genVars, backendVars, ifaceVars>>

\* Line 134: the result is returned.
ExtractReturn ==
    /\ vpc = "extracting"
    /\ ex_idx = Len(ex_tokens)
    /\ vpc' = "extracted"
    /\ UNCHANGED <<encoding, code_i, map_audio_tokens, ex_tokens, ex_idx, ex_result>>
    /\ UNCHANGED <<genVars, backendVars, ifaceVars>>

NoEncoding == [ok |-> FALSE, ids |-> <<0>>]

VocabInit ==
    /\ vpc = "new"
    /\ encoding = [c \in 0..(NumCodes - 1) |-> NoEncoding]
    /\ code_i = 0
    /\ map_audio_tokens = EmptyMap
    /\ ex_tokens = <<>>
    /\ ex_idx = 0
    /\ ex_result = <<>>

VocabNext ==
    ProcessorNew \/ MapStep \/ MapDone \/ ExtractBegin \/ ExtractStep \/ ExtractReturn

(***************************************************************************)
(* InterfaceGGUF::get_audio and the tail of InterfaceGGUF::generate        *)
(* (interface.rs). get_audio opens with the extraction modelled above, so  *)
(* its steps go on from the extraction's return. An ndarray is its shape   *)
(* and its elements in row-major order.                                    *)
(***************************************************************************)
\* AudioCodec.sr, set by AudioCodec::new and read by get_sr().
CodecSampleRate == 24000

RECURSIVE ArraySize(_)
\* The number of elements of an array of this shape: the product of its
\* axis lengths, which is 1 for a shape with no axis.
ArraySize(shape) ==
    IF shape = <<>> THEN 1 ELSE Head(shape) * ArraySize(Tail(shape))

\* Array::default(shape): every element is f32::default(), 0.0.
ArrayDefault(shape) == [shape |-> shape, data |-> [i \in 1..ArraySize(shape) |-> 0]]

\* Array::from_shape_vec(shape, v): fails unless v has the shape's size.
FromShapeVecOk(shape, v) == ArraySize(shape) = Len(v)

\* audio.into_raw_vec(): the elements.
IntoRawVec(a) == a.data

\* What the codec's session can return for n codes: the model is outside
\* the program, so the waveform is any of a few lengths, of non-zero samples.
Waveforms(n) == {[shape |-> <<1, len>>, data |-> [i \in 1..len |-> 5]] : len \in 0..n}

NoArray == [shape |-> <<0>>, data |-> <<>>]
NoOutput == [audio |-> <<>>, sr |-> 0]

\* Lines 97-100: no code was extracted.
GetAudioEmpty ==
    /\ vpc = "extracted"
    /\ spc = "idle"
    /\ ex_result = <<>>
    /\ audio' = ArrayDefault(<<>>)
    /\ spc' = "audio"
    /\ UNCHANGED <<decoderCalls, output, gerr>>
    /\ UNCHANGED <<genVars, backendVars, vocabVars, textVars, speakerVars>>

\* Lines 102-104: the codes become a [1, n] tensor and the codec decodes it.
GetAudioDecode ==
    /\ vpc = "extracted"
    /\ spc = "idle"
    /\ ex_result # <<>>
    /\ IF ~FromShapeVecOk(<<1, Len(ex_result)>>, ex_result)
       THEN /\ gerr' = "Shape"
            /\ spc' = "failed"
            /\ UNCHANGED <<audio, decoderCalls>>
       ELSE /\ decoderCalls' = decoderCalls + 1
            /\ \E ran \in BOOLEAN :
                 IF ran
                 THEN /\ \E w \in Waveforms(Len(ex_result)) : audio' = w
                      /\ spc' = "audio"
                      /\ UNCHANGED gerr
                 ELSE /\ gerr' = "Codec"
                      /\ spc' = "failed"
                      /\ UNCHANGED audio
    /\ UNCHANGED output
    /\ UNCHANGED <<genVars, backendVars, vocabVars, textVars, speakerVars>>

\* Line 204: Ok(ModelOutput::new(audio.into_raw_vec(), audio_codec.get_sr()))
GenerateReturn ==
    /\ spc = "audio"
    /\ output' = [audio |-> IntoRawVec(audio), sr |-> CodecSampleRate]
    /\ spc' = "returned"
    /\ UNCHANGED <<audio, decoderCalls, gerr>>
    /\ UNCHANGED <<genVars, backendVars, vocabVars, textVars, speakerVars>>

SynthInit ==
    /\ spc = "idle"
    /\ audio = NoArray
    /\ decoderCalls = 0
    /\ output = NoOutput
    /\ gerr = "none"

SynthNext == VocabNext \/ GetAudioEmpty \/ GetAudioDecode \/ GenerateReturn

(***************************************************************************)
(* PromptProcessor::process_text and get_completion_prompt                 *)
(* (prompt_processor.rs). A String is the sequence of its characters; in   *)
(* a prompt, a special token is one element.                               *)
(***************************************************************************)
\* The longest text argument.
MaxTextLen == 2

\* The characters texts are made of: a letter, a capital, a digit, a
\* separator and the space.
TextChars == {"a", "B", "0", "-", " "}
Texts == SeqsUpTo(TextChars, MaxTextLen)

En == <<"e", "n">>
Ja == <<"j", "a">>
Ko == <<"k", "o">>
Zh == <<"z", "h">>
\* A language no list holds.
Xx == <<"x", "x">>

\* PromptProcessor.languages, as main.rs names them.
ProcessorLanguages == {En, Ja, Ko, Zh}

\* char::to_lowercase on the capitals of the model.
LowerChar(c) ==
    CASE c = "B" -> "b"
      [] c = "E" -> "e"
      [] c = "N" -> "n"
      [] c = "M" -> "m"
      [] OTHER -> c

\* str::to_lowercase
ToLowercase(s) == [i \in 1..Len(s) |-> LowerChar(s[i])]

IsWhitespace(c) == c \in {" ", "\n", "\t"}

RECURSIVE TrimStart(_)
TrimStart(s) ==
    IF s # <<>> /\ IsWhitespace(Head(s)) THEN TrimStart(Tail(s)) ELSE s

RECURSIVE TrimEnd(_)
TrimEnd(s) ==
    IF s # <<>> /\ IsWhitespace(s[Len(s)]) THEN TrimEnd(SubSeq(s, 1, Len(s) - 1)) ELSE s

\* str::trim
Trim(s) == TrimEnd(TrimStart(s))

IsDigit(c) == c \in {"0", "1", "2", "3", "4", "5", "6", "7", "8", "9"}

RECURSIVE DigitRunEnd(_, _)
\* The index of the last digit of the run of digits that starts at i.
DigitRunEnd(s, i) ==
    IF i < Len(s) /\ IsDigit(s[i + 1]) THEN DigitRunEnd(s, i + 1) ELSE i

\* The end of the match of \d+(\.\d+)? that starts at the digit s[i].
NumberMatchEnd(s, i) ==
    LET e == DigitRunEnd(s, i)
    IN  IF e + 2 <= Len(s) /\ s[e + 1] = "." /\ IsDigit(s[e + 2])
        THEN DigitRunEnd(s, e + 2)
        ELSE e

\* number_to_words(m, None).unwrap_or_default(), for the numbers the
\* texts can hold: a run of zeros is the number zero.
NumberToWords(m) ==
    IF \A k \in 1..Len(m) : m[k] = "0" THEN <<"z", "e", "r", "o">> ELSE <<>>

RECURSIVE ReplaceAllNumbers(_, _)
\* Regex::replace_all from index i on: every match becomes its words.
ReplaceAllNumbers(s, i) ==
    IF i > Len(s) THEN <<>>
    ELSE IF IsDigit(s[i])
    THEN LET e == NumberMatchEnd(s, i)
         IN  NumberToWords(SubSeq(s, i, e)) \o ReplaceAllNumbers(s, e + 1)
    ELSE <<s[i]>> \o ReplaceAllNumbers(s, i + 1)

RECURSIVE ReplaceLiteral(_, _, _, _)
\* str::replace(pat, rep) from index i on: the occurrences of the string
\* pat, left to right and without overlap.
ReplaceLiteral(s, pat, rep, i) ==
    IF i > Len(s) THEN <<>>
    ELSE IF i + Len(pat) - 1 <= Len(s) /\ SubSeq(s, i, i + Len(pat) - 1) = pat
    THEN rep \o ReplaceLiteral(s, pat, rep, i + Len(pat))
    ELSE <<s[i]>> \o ReplaceLiteral(s, pat, rep, i + 1)

\* Regex::new(r"[-_/,\.\\]").unwrap().to_string(): the pattern's source.
SeparatorPattern == <<"[", "-", "_", "/", ",", "\\", ".", "\\", "\\", "]">>
\* Regex::new(r"[^a-z\s]").unwrap().to_string()
NonLetterPattern == <<"[", "^", "a", "-", "z", "\\", "s", "]">>

RECURSIVE SplitOnSpace(_)
\* str::split(" "): the fragments between spaces, the empty ones too.
SplitOnSpace(s) ==
    IF \A k \in 1..Len(s) : s[k] # " " THEN <<s>>
    ELSE LET k == CHOOSE j \in 1..Len(s) :
                      s[j] = " " /\ \A h \in 1..(j - 1) : s[h] # " "
         IN  <<SubSeq(s, 1, k - 1)>> \o SplitOnSpace(SubSeq(s, k + 1, Len(s)))

\* Lines 64-72 of process_text: the words of a text.
TextWords(text) ==
    LET lowered  == ToLowercase(text)
        spelled  == ReplaceAllNumbers(lowered, 1)
        spaced   == ReplaceLiteral(spelled, SeparatorPattern, <<" ">>, 1)
        stripped == ReplaceLiteral(spaced, NonLetterPattern, <<>>, 1)
    IN  SplitOnSpace(stripped)

\* The language arguments: English, a listed language that is not
\* English, and one that is not listed.
Languages == {En, Ja, Xx}

\* The speaker arguments: none, or a profile of one word.
NoSpeaker == [some |-> FALSE, language |-> <<>>, text |-> <<>>, words |-> <<>>]
SpeakerWord == [word |-> <<"a">>, duration |-> 254, codes |-> <<0, 1>>]
SpeakerArgs ==
    {NoSpeaker} \cup
    {[some |-> TRUE, language |-> l, text |-> <<"a", " ", "B">>, words |-> <<SpeakerWord>>] :
        l \in {En, Ja}}

\* Lines 56-61 of process_text: the panic the language draws, if any.
ProcessTextPanic(language) ==
    IF language \notin ProcessorLanguages THEN "LanguageNotSupported"
    ELSE IF language # En THEN "NonEnglishNotSupportedYet"
    ELSE "none"

\* format!("{:.2}", duration) inside special_tokens["time"], for a duration
\* in thousandths: rounded to hundredths.
TimeToken(duration) ==
    LET hundredths == (duration + 5) \div 10
    IN  CASE hundredths = 25 -> "<|t_0.25|>"
          [] hundredths = 26 -> "<|t_0.26|>"
          [] OTHER -> "<|t_?|>"

\* special_tokens["audio_code"].replace("{}", &c.to_string())
CodeToken(c) ==
    CASE c = 0 -> "<|0|>"
      [] c = 1 -> "<|1|>"
      [] OTHER -> "<|?|>"

RECURSIVE Join(_, _)
\* [String]::join(sep)
Join(strs, sep) ==
    IF strs = <<>> THEN <<>>
    ELSE IF Len(strs) = 1 THEN strs[1]
    ELSE strs[1] \o sep \o Join(Tail(strs), sep)

\* Lines 75-95: create_audio_prompt.
CreateAudioPrompt(ws) ==
    Join([k \in 1..Len(ws) |->
              ws[k].word \o <<TimeToken(ws[k].duration)>> \o <<"<|code_start|>">>
              \o [j \in 1..Len(ws[k].codes) |-> CodeToken(ws[k].codes[j])]
              \o <<"<|code_end|>">>],
         <<"\n">>)

\* Lines 108-124: the words, trimmed and joined, inside text_prompt; then
\* the speaker's audio prompt.
CompletionPrompt(ws, spk) ==
    <<"<|im_start|>", "\n", "<|text_start|>">>
    \o Join([k \in 1..Len(ws) |-> Trim(ws[k])], <<"<|text_sep|>">>)
    \o <<"<|text_end|>", "\n", "<|audio_start|>", "\n">>
    \o (IF spk.some THEN CreateAudioPrompt(spk.words) ELSE <<>>)

\* Lines 55-73: process_text called on its own.
ProcessTextCall ==
    /\ ppc = "idle"
    /\ \E text \in Texts, language \in Languages :
         /\ p_text' = text
         /\ p_language' = language
         /\ IF ProcessTextPanic(language) # "none"
            THEN /\ ppc' = "panicked"
                 /\ panicMsg' = ProcessTextPanic(language)
                 /\ UNCHANGED words
            ELSE /\ words' = TextWords(text)
                 /\ ppc' = "normalized"
                 /\ UNCHANGED panicMsg
    /\ UNCHANGED <<p_speaker, completion, warned>>
    /\ UNCHANGED <<genVars, backendVars, vocabVars, synthVars, speakerVars>>

\* Line 98: get_completion_prompt is called and processes the text.
GetCompletionPromptBegin ==
    /\ ppc = "idle"
    /\ \E text \in Texts, language \in Languages, spk \in SpeakerArgs :
         /\ p_text' = text
         /\ p_language' = language
         /\ p_speaker' = spk
         /\ IF ProcessTextPanic(language) # "none"
            THEN /\ ppc' = "panicked"
                 /\ panicMsg' = ProcessTextPanic(language)
                 /\ UNCHANGED words
            ELSE /\ words' = TextWords(text)
                 /\ ppc' = "words"
                 /\ UNCHANGED panicMsg
    /\ UNCHANGED <<completion, warned>>
    /\ UNCHANGED <<genVars, backendVars, vocabVars, synthVars, speakerVars>>

\* Lines 100-106: the speaker's text is processed in the speaker's language.
SpeakerWords ==
    /\ ppc = "words"
    /\ IF ~p_speaker.some
       THEN /\ ppc' = "joining"
            /\ UNCHANGED <<words, warned, panicMsg>>
       ELSE /\ warned' = (p_speaker.language # p_language)
            /\ IF ProcessTextPanic(p_speaker.language) # "none"
               THEN /\ ppc' = "panicked"
                    /\ panicMsg' = ProcessTextPanic(p_speaker.language)
                    /\ UNCHANGED words
               ELSE /\ words' = words \o TextWords(p_speaker.text)
                    /\ ppc' = "joining"
                    /\ UNCHANGED panicMsg
    /\ UNCHANGED <<p_text, p_language, p_speaker, completion>>
    /\ UNCHANGED <<genVars, backendVars, vocabVars, synthVars, speakerVars>>

\* Lines 108-124: the prompt is built and returned.
BuildPrompt ==
    /\ ppc = "joining"
    /\ completion' = CompletionPrompt(words, p_speaker)
    /\ ppc' = "prompted"
    /\ UNCHANGED <<p_text, p_language, p_speaker, words, warned, panicMsg>>
    /\ UNCHANGED <<genVars, backendVars, vocabVars, synthVars, speakerVars>>

TextInit ==
    /\ ppc = "idle"
    /\ p_text = <<>>
    /\ p_language = <<>>
    /\ p_speaker = NoSpeaker
    /\ words = <<>>
    /\ completion = <<>>
    /\ warned = FALSE
    /\ panicMsg = "none"

(***************************************************************************)
(* DEFAULT_SPEAKERS (default_speakers.rs) and                              *)
(* InterfaceGGUF::validate_speaker (interface.rs).                         *)
(***************************************************************************)
MaleN(d) == <<"m", "a", "l", "e", "_", d>>
FemaleN(d) == <<"f", "e", "m", "a", "l", "e", "_", d>>

\* The bundled registry: for each language, the names of its speakers.
DefaultSpeakers ==
    [l \in {En, Ja, Ko, Zh} |->
        CASE l = En -> {MaleN("1"), MaleN("2"), MaleN("3"), MaleN("4"),
                        FemaleN("1"), FemaleN("2")}
          [] l = Ja -> {MaleN("1"), FemaleN("1"), FemaleN("2"), FemaleN("3")}
          [] l = Ko -> {MaleN("1"), MaleN("2"), FemaleN("1"), FemaleN("2")}
          [] l = Zh -> {MaleN("1"), FemaleN("1")}]

\* The arguments of validate_speaker: every registry key, a language and a
\* name the registry does not hold, and spellings with a capital or a space.
ValidateLanguages == DOMAIN DefaultSpeakers \cup {Xx, <<"E", "N">>, <<" ", "e", "n">>}
ValidateNames ==
    UNION {DefaultSpeakers[l] : l \in DOMAIN DefaultSpeakers}
        \cup {MaleN("9"), <<"M", "a", "l", "e", "_", "1">>}

NoVerdict ==
    [ok |-> FALSE, value |-> FALSE, kind |-> "none", language |-> <<>>,
     speaker |-> <<>>, available |-> {}]

\* Lines 208-220. An error is its kind and what its message holds: the
\* language and the speaker formatted into it, and the languages it lists.
ValidateSpeakerResult(reg, language_arg, speaker_arg) ==
    LET language == Trim(ToLowercase(language_arg))
        speaker  == Trim(ToLowercase(speaker_arg))
    IN  IF language \notin DOMAIN reg
        THEN [ok |-> FALSE, value |-> FALSE, kind |-> "LanguageNotFound",
              language |-> language, speaker |-> <<>>, available |-> {}]
        ELSE IF speaker \notin reg[language]
        THEN [ok |-> FALSE, value |-> FALSE, kind |-> "SpeakerNotFound",
              language |-> language, speaker |-> speaker, available |-> {}]
        ELSE [ok |-> TRUE, value |-> TRUE, kind |-> "none", language |-> <<>>,
              speaker |-> <<>>, available |-> {}]

\* Lines 207-221: validate_speaker, an associated function any caller can
\* call at any time before the process ends.
ValidateSpeaker ==
    /\ ppc # "panicked"
    /\ \E l \in ValidateLanguages, n \in ValidateNames :
         /\ vs_language' = l
         /\ vs_speaker' = n
         /\ vs_result' = ValidateSpeakerResult(registry, l, n)
    /\ UNCHANGED registry
    /\ UNCHANGED <<genVars, backendVars, vocabVars, synthVars, textVars>>

SpeakerInit ==
    /\ registry = DefaultSpeakers
    /\ vs_language = <<>>
    /\ vs_speaker = <<>>
    /\ vs_result = NoVerdict

InterfaceNext ==
    ProcessTextCall \/ GetCompletionPromptBegin \/ SpeakerWords \/ BuildPrompt
        \/ ValidateSpeaker

(***************************************************************************)
(* The specifications.                                                     *)
(***************************************************************************)
Init ==
    GenInit /\ BackendInit /\ VocabInit /\ SynthInit /\ TextInit /\ SpeakerInit

\* Concurrent generate calls on one model instance.
Spec == Init /\ [][GenNext]_vars

\* The same, with every thread that is inside a call going on running.
FairSpec == Spec /\ \A p \in Callers : WF_vars(CallStep(p))

\* One call on a long prompt, from a fresh context.
LongSpec == Init /\ [][LongNext]_vars

\* Threads racing on GGUFModel::new.
BackendSpec == Init /\ [][BackendNext]_vars

\* PromptProcessor::new, then extract_audio_from_tokens.
VocabSpec == Init /\ [][VocabNext]_vars

\* The same, followed by the rest of get_audio and of generate.
SynthSpec == Init /\ [][SynthNext]_vars

\* Calls of process_text, get_completion_prompt and validate_speaker.
InterfaceSpec == Init /\ [][InterfaceNext]_vars

(***************************************************************************)
(* Properties of generate_stream.                                          *)
(***************************************************************************)
\* The positions of a caller that is inside the loop or past it.
PastPrefill == {"sampler", "loop", "sample", "accept", "eog", "decode", "convert", "return"}
\* The positions of a caller that is inside a call.
InCall == {"prefill"} \cup PastPrefill

\* The ids sampled by p's call, the end-of-generation id left out.
Generated(p) == SelectSeq(accepted[p], LAMBDA t : t # Eog)

\* The last id p's call sampled is the end-of-generation id.
LastIsEog(p) == accepted[p] # <<>> /\ accepted[p][Len(accepted[p])] = Eog

\* C1: a call whose prompt has at least config.max_length tokens fails with
\* the prompt-too-long error, has made no engine call, and the step that
\* fails it leaves the engine context as it was.
C1_PromptTooLongFailsBeforeEngine ==
    /\ [](\A p \in Callers :
            (pc[p] # "idle" /\ prompt[p].ok
             /\ Len(prompt[p].toks) >= config[p].max_length)
            => (pc[p] = "failed" /\ err[p] = "PromptTooLong" /\ engineCalls[p] = 0))
    /\ [][\A p \in Callers :
            (pc[p] # "failed" /\ pc'[p] = "failed" /\ err'[p] = "PromptTooLong")
            => (kvCache' = kvCache /\ ctxUser' = ctxUser /\ engineCalls'[p] = 0)]_vars

\* C1 witness: a call failed for its prompt's length on a context that
\* earlier calls have written to.
C1_Witness ==
    \E p \in Callers :
        /\ pc[p] = "failed" /\ err[p] = "PromptTooLong"
        /\ Len(prompt[p].toks) >= config[p].max_length
        /\ config[p].max_length > 0
        /\ kvCache # {}

\* C2: with no end-of-generation id sampled, the cursor never exceeds
\* max_length, and the call returns with the cursor at max_length.
C2_StopsExactlyAtMaxLength ==
    \A p \in Callers :
        (pc[p] \in PastPrefill /\ Generated(p) = accepted[p])
        => /\ n_cur[p] <= config[p].max_length
           /\ (pc[p] = "return" => n_cur[p] = config[p].max_length)

\* C3: a caller that has prefilled and not yet returned holds the context
\* lock, and the most recent engine call on the context is its own.
C3_SoleAccessDuringCall ==
    \A p \in Callers :
        /\ (pc[p] \in InCall => ctxLock = p)
        /\ (pc[p] \in PastPrefill => ctxUser = p)

\* C3 witness: a caller is at its decode step after the other caller has
\* completed a call that used the engine.
C3_Witness ==
    \E p, q \in Callers :
        /\ p # q
        /\ pc[p] = "decode" /\ engineCalls[p] > 1
        /\ pc[q] = "done" /\ engineCalls[q] > 1

\* C4: what the call returns is the prompt's ids followed by the sampled
\* ids up to the end-of-generation id.
C4_ReturnsFullIdSequence ==
    \A p \in Callers :
        pc[p] = "return" => result[p].audio = tokens_list[p] \o Generated(p)

\* C5: a caller inside a call gets to the end of it, and a call that
\* returns Ok left the loop either on an end-of-generation id (the last id
\* sampled) or with the cursor past max_length, never both and never neither.
C5_TerminatesByEogOrMaxLength ==
    /\ \A p \in Callers : [](pc[p] \in InCall => <>(pc[p] \in {"done", "failed"}))
    /\ [](\A p \in Callers :
            pc[p] \in {"convert", "return"}
            => /\ LastIsEog(p) # (n_cur[p] > config[p].max_length)
               /\ (stop[p] = "EOG") = LastIsEog(p)
               /\ (stop[p] = "MaxLength") = (n_cur[p] > config[p].max_length))

\* C5 witness: a call about to return after the cursor passed max_length,
\* having sampled two ids.
C5_Witness ==
    \E p \in Callers :
        pc[p] = "return" /\ stop[p] = "MaxLength" /\ Len(accepted[p]) >= 2

C6_BackendInitializedOnce ==
    /\ initCount <= 1
    /\ \A q \in Creators :
         npc[q] = "ready"
         => (backendSlot # 0 /\ instance[q].backend = backendSlot)

\* C6 witness: two creators raced past the check of BACKEND and both built
\* a model, one of them having started the backend.
C6_Witness ==
    \E q1, q2 \in Creators :
        /\ q1 # q2
        /\ npc[q1] = "ready" /\ npc[q2] = "ready"
        /\ initCount = 1

(***************************************************************************)
(* Properties of the vocabulary map and of the extraction.                 *)
(***************************************************************************)
\* The indices of toks whose id the map knows.
MappedIndices(toks, map) == {i \in 1..Len(toks) : toks[i] \in DOMAIN map}

\* The subsequence of toks restricted to the ids the map knows, each
\* replaced by its code: the k-th element comes from the k-th mapped index.
MappedSubsequence(toks, map) ==
    LET idx == MappedIndices(toks, map)
    IN  [k \in 1..Cardinality(idx) |->
           map[toks[CHOOSE i \in idx : Cardinality({j \in idx : j <= i}) = k]]]

\* The first id the tokenizer emitted for code c.
TokenFor(c) == encoding[c].ids[1]

\* The positions at which the processor holds its finished map.
MapBuilt == {"built", "extracting", "extracted"}

\* C8: what extract has built after consuming a prefix of its input is the
\* subsequence of that prefix restricted to mapped ids, as codes, in order
\* and with duplicates; at its return the prefix is the whole input.
C8_ExtractIsMappedSubsequence ==
    /\ vpc \in {"extracting", "extracted"}
       => ex_result = MappedSubsequence(SubSeq(ex_tokens, 1, ex_idx), map_audio_tokens)
    /\ vpc = "extracted" => ex_idx = Len(ex_tokens)

\* C8 witness: extract returned for an input of three ids that holds a
\* mapped id twice and an unmapped id.
C8_Witness ==
    /\ vpc = "extracted"
    /\ Len(ex_tokens) = 3
    /\ Len(ex_result) = 2
    /\ ex_result[1] = ex_result[2]
    /\ \E i \in 1..2 : ex_tokens[i] \notin DOMAIN map_audio_tokens

\* C9: once built, the map sends the first id of every code back to the
\* code, no two codes share an id, and the map has N entries.
C9_VocabularyMapIsBijection ==
    vpc \in MapBuilt
    => /\ \A c \in 0..(NumCodes - 1) :
            /\ TokenFor(c) \in DOMAIN map_audio_tokens
            /\ map_audio_tokens[TokenFor(c)] = c
       /\ \A c1, c2 \in 0..(NumCodes - 1) : c1 # c2 => TokenFor(c1) # TokenFor(c2)
       /\ Cardinality(DOMAIN map_audio_tokens) = NumCodes

\* C10: a code whose string did not tokenize to exactly one id means that
\* no map is produced.
C10_ConstructionFailsFast ==
    (\E c \in 0..(NumCodes - 1) :
        encoding[c] # NoEncoding /\ (~encoding[c].ok \/ Len(encoding[c].ids) # 1))
    => vpc \notin MapBuilt


(***************************************************************************)
(* Properties of the interface: synthesis.                                 *)
(***************************************************************************)
\* C11: when no code was extracted from the generated ids, generate returns,
\* without an error and without running the decoder, a waveform of zero
\* samples at the decoder's sample rate.
C11_EmptyCodesGiveEmptyWaveform ==
    (vpc = "extracted" /\ ex_result = <<>>) =>
        /\ spc # "failed"
        /\ decoderCalls = 0
        /\ spc = "returned" =>
             /\ Len(output.audio) = 0
             /\ output.sr = CodecSampleRate


(***************************************************************************)
(* Properties of the interface: text and speakers.                         *)
(***************************************************************************)
\* The call has been given a language other than "en", as the text's
\* language or as the speaker's.
NonEnglishReached ==
    \/ ppc # "idle" /\ p_language # En
    \/ ppc \notin {"idle", "words"} /\ p_speaker.some /\ p_speaker.language # En

\* C12: process_text with a language other than "en", called directly or
\* through get_completion_prompt with such a speaker, never aborts the
\* process: the failure is a value the caller receives.
C12_NonEnglishIsAnErrorValue ==
    NonEnglishReached => ppc # "panicked"

\* C13: validate_speaker returns true for every pair the registry holds,
\* fails for a language the registry lacks with an error that names the
\* language and lists the registry's languages, and leaves the registry as
\* it was.
C13_ValidateListsAvailableLanguages ==
    /\ registry = DefaultSpeakers
    /\ vs_result # NoVerdict =>
         LET language == Trim(ToLowercase(vs_language))
             speaker  == Trim(ToLowercase(vs_speaker))
         IN  /\ (language \in DOMAIN registry /\ speaker \in registry[language])
                    => (vs_result.ok /\ vs_result.value)
             /\ language \notin DOMAIN registry =>
                    /\ ~vs_result.ok
                    /\ vs_result.language = language
                    /\ vs_result.available = DOMAIN registry


(***************************************************************************)
(* Properties of generate_stream across calls and against the context.     *)
(***************************************************************************)
\* C14: a caller that is not inside a call does not hold the context lock,
\* and a call about to prefill finds the attention cache without any entry
\* of an earlier call, that is, empty.
C14_CallsStartFromCleanContext ==
    \A p \in Callers :
        /\ pc[p] \notin InCall => ctxLock # p
        /\ pc[p] = "prefill" => kvCache = {}

\* C15: in a call whose max_length is at most the context size, every
\* position of the batch submitted to the engine is below the context size.
C15_PositionsBelowContextSize ==
    \A p \in Callers :
        (pc[p] \in InCall /\ config[p].max_length <= ContextSize)
        => \A k \in 1..Len(batch[p]) : batch[p][k][2] < ContextSize


(***************************************************************************)
(* Properties of generate_stream on long prompts and long generations.     *)
(***************************************************************************)
\* C16: a call whose prompt has fewer than max_length tokens is not failed
\* by the filling of the prefill batch, and once its prefill is through the
\* batch holds the whole prompt at positions 0..n-1 and the cursor is n.
C16_PrefillTakesWholePrompt ==
    \A p \in Callers :
        (pc[p] # "idle" /\ prompt[p].ok
         /\ Len(prompt[p].toks) < config[p].max_length)
        => /\ ~(pc[p] = "failed" /\ err[p] = "BatchAdd")
           /\ pc[p] = "sampler" =>
                /\ batch[p] = PrefillBatch(prompt[p].toks)
                /\ BatchPositions(batch[p]) = 0..(Len(prompt[p].toks) - 1)
                /\ n_cur[p] = Len(prompt[p].toks)

\* The step is a decode step of p that the engine accepted, the k-th of its
\* call for k the number of ids accepted so far.
DecodeStepDone(p) == pc[p] = "decode" /\ pc'[p] = "loop"

\* C17 as amended: the decode step that brings the cursor (the prompt's
\* token count plus the decode steps made) to a multiple of 1024 clears
\* the cache, no other decode step does, and no other step of the loop
\* changes the cache.
C17_ClearWhenCursorIsMultiple ==
    [][\A p \in Callers :
          pc[p] \in PastPrefill =>
            IF DecodeStepDone(p)
            THEN (kvCache' = {})
                   <=> ((Len(prompt[p].toks) + Len(accepted[p])) % KvClearInterval = 0)
            ELSE kvCache' = kvCache]_vars

\* The cache has just been cleared by a decode step.
C17_Witness ==
    \E p \in Callers :
        /\ pc[p] = "loop" /\ accepted[p] # <<>>
        /\ kvCache = {}
        /\ n_cur[p] = KvClearInterval

\* C17 as stated: the k-th decode step clears the cache exactly when k is
\* a positive multiple of 1024, whatever the prompt's token count.
C17_ClearEvery1024DecodeSteps ==
    [][\A p \in Callers :
          pc[p] \in PastPrefill =>
            IF DecodeStepDone(p)
            THEN (kvCache' = {}) <=> (Len(accepted[p]) % KvClearInterval = 0)
            ELSE kvCache' = kvCache]_vars

=============================================================================
